---------------------------- MODULE Spec2Model ----------------------------
(***************************************************************************)
(* The CRAM name tokenizer decoder of noodles-cram                         *)
(* (src/noodles-cram/src/codecs/name_tokenizer/decode.rs) as a state       *)
(* machine: the block header reader, the column demultiplexer              *)
(* (decode_token_byte_streams), the column store (TokenReader) and the     *)
(* name reconstructor (decode_single_name).                                *)
(*                                                                         *)
(* Bytes are 0..255.  A u32 is kept as its four little-endian bytes, so    *)
(* that the whole 32-bit range, its overflow included, is represented.     *)
(* A String is kept as its UTF-8 bytes.                                    *)
(***************************************************************************)
EXTENDS Integers, Sequences, FiniteSets, TLC

\* ------------------------------------------------------------------ bounds

\* The largest name count a block header of the model declares.
MaxNames == 2

\* ------------------------------------------------------- bytes and numbers

NUL == 0

U32Zero == <<0, 0, 0, 0>>

\* The four little-endian bytes of a small natural number.
U32(n) == <<n % 256, (n \div 256) % 256, (n \div 65536) % 256, (n \div 16777216) % 256>>

\* u32::from_le_bytes, for values that fit the model checker's integers.
U32IsSmall(v) == v[3] = 0 /\ v[4] = 0

U32Small(v) == v[1] + 256 * v[2]

\* n + delta of a u32 and a u8 (u32::from(u8)): the wrapped sum and whether
\* the true sum exceeds 2^32 - 1.
U32AddU8(v, d) ==
    LET s1 == v[1] + d
        s2 == v[2] + (s1 \div 256)
        s3 == v[3] + (s2 \div 256)
        s4 == v[4] + (s3 \div 256)
    IN [val |-> <<s1 % 256, s2 % 256, s3 % 256, s4 % 256>>,
        overflow |-> s4 \div 256 = 1]

\* 2^32 - v modulo 2^32 (two's complement).
U32Neg(v) == U32AddU8(<<255 - v[1], 255 - v[2], 255 - v[3], 255 - v[4]>>, 1).val

\* Quotient and remainder of a u32 by ten, by long division from the top byte.
U32DivMod10(v) ==
    LET c4 == v[4]
        c3 == (c4 % 10) * 256 + v[3]
        c2 == (c3 % 10) * 256 + v[2]
        c1 == (c2 % 10) * 256 + v[1]
    IN [q |-> <<c1 \div 10, c2 \div 10, c3 \div 10, c4 \div 10>>, r |-> c1 % 10]

RECURSIVE U32Digits(_)
U32Digits(v) ==
    IF v = U32Zero THEN <<>>
    ELSE LET dm == U32DivMod10(v) IN Append(U32Digits(dm.q), 48 + dm.r)

\* u32::to_string: the decimal rendering, as ASCII bytes.
U32ToString(v) == IF v = U32Zero THEN <<48>> ELSE U32Digits(v)

\* format!("{:0width$}", d, width = usize::from(l)): zero-padded on the left to
\* at least l digits, never cut.
FormatPadded(v, l) ==
    LET s == U32ToString(v)
    IN IF Len(s) >= l THEN s ELSE [j \in 1..(l - Len(s)) |-> 48] \o s

\* char::from(u8) pushed onto a String: the UTF-8 encoding of U+0000..U+00FF.
CharFromU8(c) == IF c < 128 THEN <<c>> ELSE <<192 + (c \div 64), 128 + (c % 64)>>

IsCont(x) == x >= 128 /\ x <= 191

\* String::from_utf8 accepts exactly the well-formed UTF-8 byte sequences.
RECURSIVE IsUtf8(_)
IsUtf8(s) ==
    IF s = <<>> THEN TRUE
    ELSE LET a == s[1]
             n == Len(s)
         IN IF a < 128 THEN IsUtf8(Tail(s))
            ELSE IF a >= 194 /\ a <= 223
                 THEN n >= 2 /\ IsCont(s[2]) /\ IsUtf8(SubSeq(s, 3, n))
            ELSE IF a >= 224 /\ a <= 239
                 THEN /\ n >= 3
                      /\ IsCont(s[2]) /\ IsCont(s[3])
                      /\ (a = 224 => s[2] >= 160)
                      /\ (a = 237 => s[2] <= 159)
                      /\ IsUtf8(SubSeq(s, 4, n))
            ELSE IF a >= 240 /\ a <= 244
                 THEN /\ n >= 4
                      /\ IsCont(s[2]) /\ IsCont(s[3]) /\ IsCont(s[4])
                      /\ (a = 240 => s[2] >= 144)
                      /\ (a = 244 => s[2] <= 143)
                      /\ IsUtf8(SubSeq(s, 5, n))
            ELSE FALSE

\* ------------------------------------------------------------- token kinds

\* The variants of super::Type in the order of their wire values 0..12.
TypeNames ==
    <<"Type", "String", "Char", "Digits0", "DZLen", "Dup", "Diff", "Digits",
      "Delta", "Delta0", "Match", "Nop", "End">>

\* Type::try_from(u8): the kind of a byte, "Invalid" when there is none.
TypeTryFrom(n) ==
    LET k == n % 64
    IN IF k < Len(TypeNames) THEN TypeNames[k + 1] ELSE "Invalid"

\* u8::from(Type).
TypeToU8(ty) == (CHOOSE k \in 1..Len(TypeNames) : TypeNames[k] = ty) - 1

\* ------------------------------------------------------------ the tokens

\* enum Token, and None of Option<Token>, as records of one shape.
NoToken == [k |-> "None", c |-> 0, s |-> <<>>, v |-> U32Zero, w |-> 0]

TokenChar(c) == [NoToken EXCEPT !.k = "Char", !.c = c]

TokenString(s) == [NoToken EXCEPT !.k = "String", !.s = s]

TokenDigits(v) == [NoToken EXCEPT !.k = "Digits", !.v = v]

TokenPaddedDigits(v, w) == [NoToken EXCEPT !.k = "PaddedDigits", !.v = v, !.w = w]

TokenNop == [NoToken EXCEPT !.k = "Nop"]

\* What decode_single_name appends to the name for a token.
Rendering(tok) ==
    CASE tok.k = "Char" -> CharFromU8(tok.c)
      [] tok.k = "String" -> tok.s
      [] tok.k = "Digits" -> U32ToString(tok.v)
      [] tok.k = "PaddedDigits" -> FormatPadded(tok.v, tok.w)
      [] OTHER -> <<>>

\* --------------------------------------------------------- the column store

\* The ten cursors of a TokenReader, by the kind that names each.
StreamKinds ==
    {"Type", "String", "Char", "Digits0", "DZLen", "Dup", "Diff", "Digits",
     "Delta", "Delta0"}

\* The kinds TokenReader::get has an arm for; any other is unimplemented!().
GetArms ==
    {"Type", "String", "Char", "Digits0", "Dup", "Diff", "Digits", "Delta",
     "Delta0"}

\* The kinds TokenReader::get_mut has an arm for; any other is unimplemented!().
GetMutArms ==
    {"Type", "String", "Char", "Digits0", "Diff", "DZLen", "Digits", "Delta",
     "Delta0"}

\* The kinds TokenReader::set has an arm for; any other is unimplemented!().
SetArms ==
    {"Type", "String", "Char", "Digits0", "Dup", "Diff", "DZLen", "Digits",
     "Delta", "Delta0"}

\* Cursor<Vec<u8>>: the bytes and the read position.
NewCursor == [buf |-> <<>>, pos |-> 0]

\* TokenReader::default().
TokenReaderDefault == [k \in StreamKinds |-> NewCursor]

\* TokenReader::set, for a kind that has an arm: the bytes are replaced, the
\* position is kept.
TokenReaderSet(col, ty, buf) == [col EXCEPT ![ty].buf = buf]

\* Cursor::read_u8.
CursorReadU8(cur) ==
    IF cur.pos < Len(cur.buf)
    THEN [ok |-> TRUE, val |-> cur.buf[cur.pos + 1],
          cur |-> [cur EXCEPT !.pos = @ + 1]]
    ELSE [ok |-> FALSE, val |-> 0, cur |-> cur]

\* Cursor::read_u32::<LittleEndian>: read_exact of four bytes; a short read
\* leaves the cursor at the end.
CursorReadU32(cur) ==
    IF cur.pos + 4 <= Len(cur.buf)
    THEN [ok |-> TRUE, val |-> SubSeq(cur.buf, cur.pos + 1, cur.pos + 4),
          cur |-> [cur EXCEPT !.pos = @ + 4]]
    ELSE [ok |-> FALSE, val |-> U32Zero, cur |-> [cur EXCEPT !.pos = Len(cur.buf)]]

\* BufRead::read_until(0x00) followed by Vec::pop: the bytes up to and
\* including the first NUL (all that is left when there is none), less the
\* last byte taken.
CursorReadString(cur) ==
    LET rest == SubSeq(cur.buf, cur.pos + 1, Len(cur.buf))
        nuls == {j \in 1..Len(rest) : rest[j] = NUL}
        cnt == IF nuls = {} THEN Len(rest)
               ELSE CHOOSE j \in nuls : \A x \in nuls : j <= x
        taken == SubSeq(rest, 1, cnt)
    IN [val |-> SubSeq(taken, 1, Len(taken) - 1),
        cur |-> [cur EXCEPT !.pos = @ + cnt]]

\* TokenReader::read_type, given what read_u8 on the type-tag cursor returned.
ReadTypeOf(col, r, ty) ==
    IF ~r.ok THEN [st |-> "err", fault |-> "UnexpectedEof", ty |-> "Invalid", col |-> col]
    ELSE [st |-> IF ty = "Invalid" THEN "err" ELSE "ok",
          fault |-> IF ty = "Invalid" THEN "InvalidData" ELSE "",
          ty |-> ty, col |-> [col EXCEPT !["Type"] = r.cur]]

TypeOfRead(col, r) == ReadTypeOf(col, r, TypeTryFrom(r.val))

\* TokenReader::read_type.
read_type(col) == TypeOfRead(col, CursorReadU8(col["Type"]))

\* The distance of read_distance, given what read_u32 on the cursor returned.
DistanceOf(col, ty, r) ==
    IF ~r.ok
    THEN [st |-> "err", fault |-> "UnexpectedEof", dist |-> U32Zero, col |-> col]
    ELSE [st |-> "ok", fault |-> "", dist |-> r.val, col |-> [col EXCEPT ![ty] = r.cur]]

\* TokenReader::read_distance.
read_distance(col, ty) ==
    IF ty \notin {"Dup", "Diff"}
    THEN [st |-> "panic", fault |-> "assert", dist |-> U32Zero, col |-> col]
    ELSE IF ty \notin GetMutArms
    THEN [st |-> "panic", fault |-> "unimplemented get_mut", dist |-> U32Zero, col |-> col]
    ELSE DistanceOf(col, ty, CursorReadU32(col[ty]))

\* What read_token returns, with the tag it read and the increment byte.
TokenResult(st, fault, tok, col, tag, delta) ==
    [st |-> st, fault |-> fault, tok |-> tok, col |-> col, tag |-> tag, delta |-> delta]

\* The arm of a kind that reads one value from the cursor of kind: r is what
\* the read returned and tok the token made of it.
OneValue(col, tag, kind, r, tok) ==
    IF ~r.ok THEN TokenResult("err", "UnexpectedEof", NoToken, col, tag, 0)
    ELSE TokenResult("ok", "", tok, [col EXCEPT ![kind] = r.cur], tag, 0)

\* The arm of Type::String: read_until, pop, String::from_utf8.
StringValue(col, tag, r) ==
    TokenResult(IF IsUtf8(r.val) THEN "ok" ELSE "err",
                IF IsUtf8(r.val) THEN "" ELSE "InvalidData",
                IF IsUtf8(r.val) THEN TokenString(r.val) ELSE NoToken,
                [col EXCEPT !["String"] = r.cur], tag, 0)

\* The arm of Type::Digits0: the value, then its width from the DZLen cursor.
PaddedValue(col, tag, r, l) ==
    IF ~r.ok \/ ~l.ok THEN TokenResult("err", "UnexpectedEof", NoToken, col, tag, 0)
    ELSE TokenResult("ok", "", TokenPaddedDigits(r.val, l.val),
                     [col EXCEPT !["Digits0"] = r.cur, !["DZLen"] = l.cur], tag, 0)

\* DeltaRefOk with the two kinds of number taken for one another.
DeltaRefOkAnyNumber(tag, prev) ==
    tag \in {"Delta", "Delta0"} /\ prev.k \in {"Digits", "PaddedDigits"}

\* The reference token a Delta and a Delta0 tag need.
DeltaRefOk(tag, prev) ==
    \/ tag = "Delta" /\ prev.k = "Digits"
    \/ tag = "Delta0" /\ prev.k = "PaddedDigits"

\* n + delta: a panic when the build checks overflow, the wrapped sum when it
\* does not.
DeltaSum(col, tag, prev, delta, sum, checks) ==
    IF sum.overflow /\ checks
    THEN TokenResult("panic", "add with overflow", NoToken, col, tag, delta)
    ELSE TokenResult("ok", "",
                     IF tag = "Delta" THEN TokenDigits(sum.val)
                     ELSE TokenPaddedDigits(sum.val, prev.w),
                     col, tag, delta)

\* The arms of Type::Delta and Type::Delta0: r is the read of the increment.
DeltaValue(col, tag, r, prev, checks) ==
    IF ~r.ok THEN TokenResult("err", "UnexpectedEof", NoToken, col, tag, 0)
    ELSE IF DeltaRefOk(tag, prev)
    THEN DeltaSum([col EXCEPT ![tag] = r.cur], tag, prev, r.val,
                  U32AddU8(prev.v, r.val), checks)
    ELSE TokenResult("err", "InvalidData", NoToken, [col EXCEPT ![tag] = r.cur], tag, r.val)

\* TokenOfTag with Match falling into the arm of the other tags.
TokenOfTagMatchAsNop(col, tag, prev, checks) ==
    CASE tag = "Char" ->
             OneValue(col, tag, "Char", CursorReadU8(col["Char"]),
                      TokenChar(CursorReadU8(col["Char"]).val))
      [] tag = "String" -> StringValue(col, tag, CursorReadString(col["String"]))
      [] tag = "Digits" ->
             OneValue(col, tag, "Digits", CursorReadU32(col["Digits"]),
                      TokenDigits(CursorReadU32(col["Digits"]).val))
      [] tag = "Digits0" ->
             PaddedValue(col, tag, CursorReadU32(col["Digits0"]), CursorReadU8(col["DZLen"]))
      [] tag \in {"Delta", "Delta0"} ->
             DeltaValue(col, tag, CursorReadU8(col[tag]), prev, checks)
      [] tag = "Match" -> TokenResult("ok", "", TokenNop, col, tag, 0)
      [] tag = "End" -> TokenResult("ok", "", NoToken, col, tag, 0)
      [] OTHER -> TokenResult("ok", "", TokenNop, col, tag, 0)

\* TokenOfTag with a Match without reference read as one of the other tags.
TokenOfTagMatchAbsentAsNop(col, tag, prev, checks) ==
    CASE tag = "Char" ->
             OneValue(col, tag, "Char", CursorReadU8(col["Char"]),
                      TokenChar(CursorReadU8(col["Char"]).val))
      [] tag = "String" -> StringValue(col, tag, CursorReadString(col["String"]))
      [] tag = "Digits" ->
             OneValue(col, tag, "Digits", CursorReadU32(col["Digits"]),
                      TokenDigits(CursorReadU32(col["Digits"]).val))
      [] tag = "Digits0" ->
             PaddedValue(col, tag, CursorReadU32(col["Digits0"]), CursorReadU8(col["DZLen"]))
      [] tag \in {"Delta", "Delta0"} ->
             DeltaValue(col, tag, CursorReadU8(col[tag]), prev, checks)
      [] tag = "Match" ->
             TokenResult("ok", "", IF prev = NoToken THEN TokenNop ELSE prev, col, tag, 0)
      [] tag = "End" -> TokenResult("ok", "", NoToken, col, tag, 0)
      [] OTHER -> TokenResult("ok", "", TokenNop, col, tag, 0)

\* The match of read_token on the tag read.
TokenOfTag(col, tag, prev, checks) ==
    CASE tag = "Char" ->
             OneValue(col, tag, "Char", CursorReadU8(col["Char"]),
                      TokenChar(CursorReadU8(col["Char"]).val))
      [] tag = "String" -> StringValue(col, tag, CursorReadString(col["String"]))
      [] tag = "Digits" ->
             OneValue(col, tag, "Digits", CursorReadU32(col["Digits"]),
                      TokenDigits(CursorReadU32(col["Digits"]).val))
      [] tag = "Digits0" ->
             PaddedValue(col, tag, CursorReadU32(col["Digits0"]), CursorReadU8(col["DZLen"]))
      [] tag \in {"Delta", "Delta0"} ->
             DeltaValue(col, tag, CursorReadU8(col[tag]), prev, checks)
      [] tag = "Match" -> TokenResult("ok", "", prev, col, tag, 0)
      [] tag = "End" -> TokenResult("ok", "", NoToken, col, tag, 0)
      [] OTHER -> TokenResult("ok", "", TokenNop, col, tag, 0)

TokenAfterType(rt, prev, checks) ==
    IF rt.st # "ok" THEN TokenResult(rt.st, rt.fault, NoToken, rt.col, rt.ty, 0)
    ELSE TokenOfTag(rt.col, rt.ty, prev, checks)

\* TokenReader::read_token.  prev is the reference token (NoToken for None);
\* a returned tok of NoToken is Ok(None).
read_token(col, prev, checks) == TokenAfterType(read_type(col), prev, checks)

\* ------------------------------------------------------- the byte source

\* read_u8 on the block's byte source, pos bytes of which are consumed.
ReaderReadU8(s, pos) ==
    IF pos < Len(s) THEN [ok |-> TRUE, val |-> s[pos + 1], pos |-> pos + 1]
    ELSE [ok |-> FALSE, val |-> 0, pos |-> pos]

\* read_exact of n bytes on the block's byte source.
ReaderReadExact(s, pos, n) ==
    IF pos + n <= Len(s) THEN [ok |-> TRUE, val |-> SubSeq(s, pos + 1, pos + n), pos |-> pos + n]
    ELSE [ok |-> FALSE, val |-> <<>>, pos |-> Len(s)]

\* read_uint7: groups of seven bits, the most significant first, the top bit
\* of a byte saying that another follows.
RECURSIVE read_uint7(_, _, _)
read_uint7(s, pos, acc) ==
    LET r == ReaderReadU8(s, pos)
        n == acc * 128 + (r.val % 128)
    IN IF ~r.ok THEN [ok |-> FALSE, val |-> 0, pos |-> pos]
       ELSE IF r.val >= 128 THEN read_uint7(s, r.pos, n)
       ELSE [ok |-> TRUE, val |-> n, pos |-> r.pos]

\* HeaderOf with the flag tested for being non-zero.
HeaderOfNonZeroFlag(s, u, n, f) ==
    IF ~u.ok \/ ~n.ok \/ ~f.ok
    THEN [st |-> "err", fault |-> "UnexpectedEof", ulen |-> U32Zero,
          n_names |-> U32Zero, use_arith |-> FALSE, pos |-> Len(s)]
    ELSE [st |-> "ok", fault |-> "", ulen |-> u.val, n_names |-> n.val,
          use_arith |-> (f.val # 0), pos |-> f.pos]

\* The header of lines 17-25, given its three reads.
HeaderOf(s, u, n, f) ==
    IF ~u.ok \/ ~n.ok \/ ~f.ok
    THEN [st |-> "err", fault |-> "UnexpectedEof", ulen |-> U32Zero,
          n_names |-> U32Zero, use_arith |-> FALSE, pos |-> Len(s)]
    ELSE [st |-> "ok", fault |-> "", ulen |-> u.val, n_names |-> n.val,
          use_arith |-> (f.val = 1), pos |-> f.pos]

\* decode, lines 17-25: the block header: ulen, n_names, the back-end flag.
decode_header(s) ==
    HeaderOf(s, ReaderReadExact(s, 0, 4), ReaderReadExact(s, 4, 4), ReaderReadU8(s, 8))

\* TokNew testing the bit of tok_dup.
TokNewOnDupBit(ttype) == (ttype \div 64) % 2 = 1

\* ttype & 0x80 != 0.
TokNew(ttype) == (ttype \div 128) % 2 = 1

\* ttype & 0x40 != 0.
TokDup(ttype) == (ttype \div 64) % 2 = 1

\* vec![u8::from(Type::Match); n_names] with buf[0] = u8::from(ty), for
\* n_names >= 1.
Prefill(ty, n) == [j \in 1..n |-> IF j = 1 THEN TypeToU8(ty) ELSE TypeToU8("Match")]

\* The state of decode_token_byte_streams within one turn of its loop: the
\* columns b, the column index t, the back-end's pending results and the
\* calls made to it, the header byte and its kind.
DemuxContext(bb, tt, orc, cls) ==
    [b |-> bb, t |-> tt, oracle |-> orc, calls |-> cls, ttype |-> 0, ty |-> "Invalid"]

\* What one turn of the loop of decode_token_byte_streams leaves: st is "ok",
\* "break" (the source is exhausted at a header byte), "err" or "panic".
DemuxResult(cx, st, fault, pos) ==
    [st |-> st, fault |-> fault, b |-> cx.b, t |-> cx.t, pos |-> pos,
     oracle |-> cx.oracle, calls |-> cx.calls, ttype |-> cx.ttype, ty |-> cx.ty]

\* StoreStream storing into the first column whatever the current one is.
StoreStreamFirstColumn(cx, pos, buf) ==
    IF cx.t < 0 THEN DemuxResult(cx, "panic", "index b[t]", pos)
    ELSE IF cx.ty \notin SetArms THEN DemuxResult(cx, "panic", "unimplemented set", pos)
    ELSE DemuxResult([cx EXCEPT !.b = [@ EXCEPT ![1] = TokenReaderSet(@, cx.ty, buf)]],
                     "ok", "", pos)

\* b[t as usize].set(ty, buf), lines 227 and 244: t is -1 until a column is
\* opened, and -1 as usize is beyond every length.
StoreStream(cx, pos, buf) ==
    IF cx.t < 0 THEN DemuxResult(cx, "panic", "index b[t]", pos)
    ELSE IF cx.ty \notin SetArms THEN DemuxResult(cx, "panic", "unimplemented set", pos)
    ELSE DemuxResult([cx EXCEPT !.b = [@ EXCEPT ![cx.t + 1] = TokenReaderSet(@, cx.ty, buf)]],
                     "ok", "", pos)

\* b[dup_pos].get(dup_type).get_ref().clone() and the store, lines 226-227.
DupSource(cx, p, d, dup_type) ==
    IF ~p.ok \/ ~d.ok THEN DemuxResult(cx, "err", "UnexpectedEof", d.pos)
    ELSE IF dup_type = "Invalid" THEN DemuxResult(cx, "err", "InvalidData dup kind", d.pos)
    ELSE IF p.val >= Len(cx.b) THEN DemuxResult(cx, "panic", "index b[dup_pos]", d.pos)
    ELSE IF dup_type \notin GetArms THEN DemuxResult(cx, "panic", "unimplemented get", d.pos)
    ELSE StoreStream(cx, d.pos, cx.b[p.val + 1][dup_type].buf)

DupKind(cx, p, d) == DupSource(cx, p, d, TypeTryFrom(d.val))

\* The tok_dup branch, lines 220-227: p is the read of dup_pos.
DupRead(cx, s, p) == DupKind(cx, p, ReaderReadU8(s, p.pos))

\* BackEndCall asking the back-end for order 1.
BackEndCallOrder1(cx, arith, data) ==
    [cx EXCEPT !.calls = Append(@, [arith |-> arith, order |-> 1, data |-> data]),
               !.oracle = IF @ = <<>> THEN @ ELSE Tail(@)]

\* The call of the selected back-end with order 0, lines 238-242.
BackEndCall(cx, arith, data) ==
    [cx EXCEPT !.calls = Append(@, [arith |-> arith, order |-> 0, data |-> data]),
               !.oracle = IF @ = <<>> THEN @ ELSE Tail(@)]

\* The back-end's answer and the store, lines 238-244: cx is the state
\* before the call and cx1 the state after it.
FreshStore(cx, cx1, pos) ==
    IF cx.oracle = <<>> \/ ~Head(cx.oracle).ok THEN DemuxResult(cx1, "err", "back-end", pos)
    ELSE StoreStream(cx1, pos, Head(cx.oracle).buf)

\* FreshData with a short read of the payload taken for a full one.
FreshDataShortRead(cx, arith, c, data) ==
    IF ~c.ok THEN DemuxResult(cx, "err", "UnexpectedEof", data.pos)
    ELSE FreshStore(cx, BackEndCall(cx, arith, data.val), data.pos)

FreshData(cx, arith, c, data) ==
    IF ~c.ok \/ ~data.ok THEN DemuxResult(cx, "err", "UnexpectedEof", data.pos)
    ELSE FreshStore(cx, BackEndCall(cx, arith, data.val), data.pos)

\* The else branch, lines 229-244: c is the read of clen.
FreshRead(cx, s, arith, c) == FreshData(cx, arith, c, ReaderReadExact(s, c.pos, c.val))

\* `if tok_dup { .. } else { .. }`, lines 219-245.
demux_payload(cx, s, pos, arith) ==
    IF TokDup(cx.ttype) THEN DupRead(cx, s, ReaderReadU8(s, pos))
    ELSE FreshRead(cx, s, arith, read_uint7(s, pos, 0))

\* t += 1; b.push(TokenReader::default()), lines 208-210.
OpenColumn(cx) == [cx EXCEPT !.b = Append(@, TokenReaderDefault), !.t = @ + 1]

\* b[t as usize].set(ty, buf) of line 215, for a kind set has an arm for.
PrefillColumn(cx, n) ==
    [cx EXCEPT !.b = [@ EXCEPT ![cx.t + 1] = TokenReaderSet(@, cx.ty, Prefill(cx.ty, n))]]

\* Lines 204-245 for a header byte read: cx holds the byte and its kind.
SubBlockOf(cx, s, pos, arith, n) ==
    IF cx.ty = "Invalid" THEN DemuxResult(cx, "err", "InvalidData kind", pos)
    ELSE IF ~TokNew(cx.ttype) THEN demux_payload(cx, s, pos, arith)
    ELSE IF cx.ty = "Type" THEN demux_payload(OpenColumn(cx), s, pos, arith)
    ELSE IF n = 0 THEN DemuxResult(OpenColumn(cx), "panic", "index buf[0]", pos)
    ELSE IF cx.ty \notin SetArms
    THEN DemuxResult(OpenColumn(cx), "panic", "unimplemented set", pos)
    ELSE demux_payload(PrefillColumn(OpenColumn(cx), n), s, pos, arith)

\* Lines 195-205: h is the read of the header byte.
HeaderByte(cx, s, arith, n, h) ==
    IF ~h.ok THEN DemuxResult(cx, "break", "", h.pos)
    ELSE SubBlockOf([cx EXCEPT !.ttype = h.val, !.ty = TypeTryFrom(h.val)],
                    s, h.pos, arith, n)

\* One turn of the loop of decode_token_byte_streams, lines 194-246.
decode_token_byte_streams_step(s, pos, bb, tt, orc, cls, arith, n) ==
    HeaderByte(DemuxContext(bb, tt, orc, cls), s, arith, n, ReaderReadU8(s, pos))

\* ------------------------------------------------- the name reconstructor

\* The length of each per-name token table: vec![None; 128].
TokenSlots == 128

\* The build of the decoder: whether integer overflow is checked (it panics)
\* or wraps, and the width of usize.
Builds == [checks : BOOLEAN, bits : {32, 64}]

\* A usize index: idx when big is FALSE; when big is TRUE a value that lies
\* beyond the length of every Vec of the decoder.
Index(n) == [big |-> FALSE, idx |-> n]

BigIndex == [big |-> TRUE, idx |-> 0]

\* UsizeSub with the distance taken for the ordinal itself: m = dist.
UsizeSubAbsolute(n, dist, bld) ==
    IF U32IsSmall(dist) THEN [st |-> "ok", m |-> Index(U32Small(dist))]
    ELSE [st |-> "ok", m |-> BigIndex]

\* let m = n - dist, in usize, for n < 256: n - dist when dist <= n; else a
\* panic when the build checks overflow, and the difference modulo 2^bits
\* when it does not.
UsizeSub(n, dist, bld) ==
    IF U32IsSmall(dist) /\ U32Small(dist) <= n
    THEN [st |-> "ok", m |-> Index(n - U32Small(dist))]
    ELSE IF bld.checks THEN [st |-> "panic", m |-> BigIndex]
    ELSE IF bld.bits = 64 THEN [st |-> "ok", m |-> BigIndex]
    ELSE LET w == U32AddU8(U32Neg(dist), n).val
         IN [st |-> "ok", m |-> IF U32IsSmall(w) THEN Index(U32Small(w)) ELSE BigIndex]

\* The token recorded for name m at column t: tokens[m][t], None when absent.
TokenAt(toks, m, t) == IF t \in DOMAIN toks[m + 1] THEN toks[m + 1][t] ELSE NoToken

\* WriteName without the write of the NUL.
WriteNameNoNul(d, name) == d \o name

\* dst.write_all(name.as_bytes()) and dst.write_u8(NUL), lines 36-37.
WriteName(d, name) == d \o name \o <<NUL>>

\* What the first part of decode_single_name leaves.
BeginResult(st, fault, bb, ty, dist, dist_ok, mm, nms, toks, returned) ==
    [st |-> st, fault |-> fault, b |-> bb, ty |-> ty, dist |-> dist,
     dist_ok |-> dist_ok, m |-> mm, names |-> nms, tokens |-> toks,
     returned |-> returned]

\* Lines 260-268: the reference ordinal and the whole of the Dup branch.
BeginWithM(bb, nms, toks, n, ty, dist, sub) ==
    IF sub.st # "ok"
    THEN BeginResult("panic", "subtract with overflow", bb, ty, dist, TRUE, sub.m,
                     nms, toks, FALSE)
    ELSE IF ty # "Dup"
    THEN BeginResult("ok", "", bb, ty, dist, TRUE, sub.m, nms, toks, FALSE)
    ELSE IF sub.m.big \/ sub.m.idx >= Len(nms)
    THEN BeginResult("panic", "index names[m]", bb, ty, dist, TRUE, sub.m, nms, toks, FALSE)
    ELSE BeginResult("ok", "", bb, ty, dist, TRUE, sub.m,
                     [nms EXCEPT ![n + 1] = nms[sub.m.idx + 1]],
                     [toks EXCEPT ![n + 1] = toks[sub.m.idx + 1]], TRUE)

\* Line 258 and on: rd is what read_distance returned.
BeginWithDistance(bb, nms, toks, n, bld, ty, rd) ==
    IF rd.st # "ok"
    THEN BeginResult(rd.st, rd.fault, [bb EXCEPT ![1] = rd.col], ty, U32Zero, FALSE,
                     BigIndex, nms, toks, FALSE)
    ELSE BeginWithM([bb EXCEPT ![1] = rd.col], nms, toks, n, ty, rd.dist,
                    UsizeSub(n, rd.dist, bld))

\* Line 257 and on: rt is what read_type returned.
BeginWithType(bb, nms, toks, n, bld, rt) ==
    IF rt.st # "ok"
    THEN BeginResult(rt.st, rt.fault, [bb EXCEPT ![1] = rt.col], rt.ty, U32Zero, FALSE,
                     BigIndex, nms, toks, FALSE)
    ELSE BeginWithDistance(bb, nms, toks, n, bld, rt.ty, read_distance(rt.col, rt.ty))

\* decode_single_name, lines 257-268: the tag and the distance of column 0,
\* the reference ordinal, and the whole of the Dup branch.
decode_single_name_begin(bb, nms, toks, n, bld) ==
    IF Len(bb) = 0
    THEN BeginResult("panic", "index b[0]", bb, "Invalid", U32Zero, FALSE, BigIndex,
                     nms, toks, FALSE)
    ELSE BeginWithType(bb, nms, toks, n, bld, read_type(bb[1]))

\* What one turn of the loop of decode_single_name leaves; ended says that
\* the loop was left by its break.
WalkResult(st, fault, bb, prev, r, nms, toks, ended) ==
    [st |-> st, fault |-> fault, b |-> bb, prev |-> prev, tag |-> r.tag,
     delta |-> r.delta, tok |-> r.tok, names |-> nms, tokens |-> toks,
     ended |-> ended]

NoRead == TokenResult("panic", "", NoToken, TokenReaderDefault, "Invalid", 0)

\* WalkWithToken recording the token one slot further on.
WalkWithTokenAtNext(bb, nms, toks, n, t, prev, r) ==
    IF r.st # "ok"
    THEN WalkResult(r.st, r.fault, [bb EXCEPT ![t + 1] = r.col], prev, r, nms, toks, FALSE)
    ELSE IF r.tok = NoToken
    THEN WalkResult("ok", "", [bb EXCEPT ![t + 1] = r.col], prev, r, nms, toks, TRUE)
    ELSE WalkResult("ok", "", [bb EXCEPT ![t + 1] = r.col], prev, r,
                    [nms EXCEPT ![n + 1] = @ \o Rendering(r.tok)],
                    [toks EXCEPT ![n + 1] = ((t + 1) :> r.tok) @@ @], FALSE)

\* Lines 273-290: r is what read_token returned.
WalkWithToken(bb, nms, toks, n, t, prev, r) ==
    IF r.st # "ok"
    THEN WalkResult(r.st, r.fault, [bb EXCEPT ![t + 1] = r.col], prev, r, nms, toks, FALSE)
    ELSE IF r.tok = NoToken
    THEN WalkResult("ok", "", [bb EXCEPT ![t + 1] = r.col], prev, r, nms, toks, TRUE)
    ELSE WalkResult("ok", "", [bb EXCEPT ![t + 1] = r.col], prev, r,
                    [nms EXCEPT ![n + 1] = @ \o Rendering(r.tok)],
                    [toks EXCEPT ![n + 1] = (t :> r.tok) @@ @], FALSE)

WalkWithPrev(bb, nms, toks, n, t, prev, bld) ==
    WalkWithToken(bb, nms, toks, n, t, prev, read_token(bb[t + 1], prev, bld.checks))

\* One turn of the loop of decode_single_name, lines 270-291.
decode_single_name_walk(bb, nms, toks, n, mm, t, bld) ==
    IF mm.big \/ mm.idx >= Len(toks)
    THEN WalkResult("panic", "index tokens[m]", bb, NoToken, NoRead, nms, toks, FALSE)
    ELSE IF t >= TokenSlots
    THEN WalkResult("panic", "index tokens[m][t]", bb, NoToken, NoRead, nms, toks, FALSE)
    ELSE IF t >= Len(bb)
    THEN WalkResult("panic", "index b[t]", bb, TokenAt(toks, mm.idx, t), NoRead,
                    nms, toks, FALSE)
    ELSE WalkWithPrev(bb, nms, toks, n, t, TokenAt(toks, mm.idx, t), bld)

\* ------------------------------------------------------ the input blocks

\* A sub-block of an input: the header byte; for a duplicate the source
\* column index and source kind byte; otherwise the compressed payload and
\* what the entropy back-end returns for it.
SubBlock(hdr, data, out) == [hdr |-> hdr, pos |-> 0, dty |-> 0, data |-> data, out |-> out]

SubDup(hdr, pos, dty) ==
    [hdr |-> hdr, pos |-> pos, dty |-> dty, data |-> <<>>, out |-> [ok |-> FALSE, buf |-> <<>>]]

\* The back-end returning buf, and the back-end rejecting its payload.
Decoded(buf) == [ok |-> TRUE, buf |-> buf]

Rejected == [ok |-> FALSE, buf |-> <<>>]

\* The 7-bit-group encoding of a count below 2^14.
EncodeUint7(n) == IF n < 128 THEN <<n>> ELSE <<128 + (n \div 128), n % 128>>

EncodeSub(sb) ==
    <<sb.hdr>> \o (IF TokDup(sb.hdr) THEN <<sb.pos, sb.dty>>
                   ELSE EncodeUint7(Len(sb.data)) \o sb.data)

RECURSIVE Flatten(_)
Flatten(ss) ==
    IF ss = <<>> THEN <<>>
    ELSE IF Len(ss) = 1 THEN ss[1]
    ELSE Flatten(SubSeq(ss, 1, Len(ss) \div 2))
         \o Flatten(SubSeq(ss, (Len(ss) \div 2) + 1, Len(ss)))

\* The bytes of a block: the header of §6 and the sub-blocks.
EncodeBlock(ulenBytes, n, flag, subs) ==
    ulenBytes \o U32(n) \o <<flag>> \o Flatten([j \in 1..Len(subs) |-> EncodeSub(subs[j])])

\* What the back-end returns, call by call, for the sub-blocks of a block.
BackEndOutputs(subs) ==
    Flatten([j \in 1..Len(subs) |->
                IF TokDup(subs[j].hdr) THEN <<>> ELSE <<subs[j].out>>])

\* All sequences of length n over the set S.
SeqsOfLen(S, n) == [1..n -> S]

U32Max == <<255, 255, 255, 255>>

NewBit == 128

DupBit == 64

Tag(ty) == TypeToU8(ty)

\* A payload of n bytes; the model's back-end does not read it.
Payload(n) == [j \in 1..n |-> 170]

\* A sub-block that sets the stream of kind ty to buf, opening a column or not.
Stream(new, ty, buf) ==
    SubBlock((IF new THEN NewBit ELSE 0) + Tag(ty), Payload(1 + (Len(buf) % 2)), Decoded(buf))

TagBytes(tags) == [j \in 1..Len(tags) |-> Tag(tags[j])]

\* A column that ends every walk: its type-tag stream is End for every name.
EndColumn == <<Stream(TRUE, "Type", [j \in 1..MaxNames |-> Tag("End")])>>

\* A column of one Char token, matched by the later names.
CharColumn ==
    <<Stream(TRUE, "Type", [j \in 1..MaxNames |-> IF j = 1 THEN Tag("Char") ELSE Tag("Match")]),
      Stream(FALSE, "Char", <<58>>)>>

\* Family A: column 0 swept over its tags and distances.
Col0Tags == {"Diff", "Dup", "Char"}

Dists == {U32(d) : d \in 0..(MaxNames - 1)} \cup {U32Max}

Col0TypeStreams == {TagBytes(q) : q \in SeqsOfLen(Col0Tags, MaxNames)} \cup {<<>>}

DistStreams == {Flatten(q) : q \in SeqsOfLen(Dists, MaxNames)} \cup {<<1, 0, 0>>}

Column0(ts, ds) ==
    <<Stream(TRUE, "Type", ts), Stream(FALSE, "Diff", ds),
      Stream(FALSE, "Dup", Flatten([j \in 1..MaxNames |-> U32(1)]))>>

BlocksA ==
    {[n |-> n, ulen |-> U32(88), flag |-> 0,
      subs |-> Column0(ts, ds) \o CharColumn \o EndColumn] :
        n \in 0..MaxNames, ts \in Col0TypeStreams, ds \in DistStreams}

\* Family B: every name a Diff (name 0 at distance 0, the others at distance
\* 1), column 1 swept over its tags.
WalkTags ==
    {"Char", "String", "Digits", "Digits0", "Delta", "Delta0", "Match", "End", "Nop"}

Variants == 1..3

\* The data streams of column 1: ordinary values, values at the edge of u32
\* and a string with no NUL, or an ill-formed string.
DataStreams(v) ==
    <<Stream(FALSE, "Char", IF v = 1 THEN <<65, 66>> ELSE <<201, 0>>),
      Stream(FALSE, "String",
             CASE v = 1 -> <<97, 98, NUL, 99, NUL>>
               [] v = 2 -> <<99>>
               [] OTHER -> <<255, NUL, 99, NUL>>),
      Stream(FALSE, "Digits",
             IF v = 2 THEN Flatten([j \in 1..MaxNames |-> U32Max])
             ELSE Flatten([j \in 1..MaxNames |-> U32(123 * j)])),
      Stream(FALSE, "Digits0",
             IF v = 2 THEN Flatten([j \in 1..MaxNames |-> U32Max])
             ELSE Flatten([j \in 1..MaxNames |-> U32(8765 * j)])),
      Stream(FALSE, "DZLen", IF v = 3 THEN <<0>> ELSE [j \in 1..MaxNames |-> 5]),
      Stream(FALSE, "Delta", IF v = 3 THEN <<>> ELSE [j \in 1..MaxNames |-> IF v = 1 THEN 255 ELSE 1]),
      Stream(FALSE, "Delta0", IF v = 3 THEN <<>> ELSE [j \in 1..MaxNames |-> j])>>

AllDiff ==
    Column0([j \in 1..MaxNames |-> Tag("Diff")],
            Flatten([j \in 1..MaxNames |-> IF j = 1 THEN U32(0) ELSE U32(1)]))

Tails == {<<>>, EndColumn, CharColumn \o EndColumn}

BlocksB ==
    {[n |-> MaxNames, ulen |-> U32(0), flag |-> 1,
      subs |-> AllDiff \o <<Stream(TRUE, "Type", TagBytes(q))>> \o DataStreams(v) \o tail] :
        q \in SeqsOfLen(WalkTags, MaxNames), v \in Variants, tail \in Tails}

\* Family C: one sub-block swept over its header byte and what follows it,
\* as the first sub-block of the block or after one that opens column 0.
HeaderBytes == {k + f : k \in (0..13) \cup {63}, f \in {0, DupBit, NewBit, NewBit + DupBit}}

SweptSubs ==
    {SubDup(h, p, d) : h \in {x \in HeaderBytes : TokDup(x)}, p \in 0..2,
                       d \in {Tag("Type"), Tag("DZLen"), Tag("Match"), 13}}
    \cup {SubBlock(h, Payload(1), o) : h \in {x \in HeaderBytes : ~TokDup(x)},
                                       o \in {Decoded(<<Tag("Diff")>>),
                                             Decoded(<<Tag("Diff"), Tag("Diff")>>),
                                             Rejected}}

BlocksC ==
    {[n |-> n, ulen |-> U32(0), flag |-> 0, subs |-> pre \o <<sb>>] :
        n \in 0..1, pre \in {<<>>, <<Stream(TRUE, "Type", <<Tag("Diff")>>)>>},
        sb \in SweptSubs}

\* Family H: the header swept over its flag byte, with a declared length
\* that differs from the name count.
Flags == 0..255

BlocksH ==
    {[n |-> n, ulen |-> u, flag |-> f, subs |-> AllDiff \o EndColumn] :
        n \in 1..MaxNames, u \in {U32(0), <<4, 3, 2, 1>>}, f \in Flags}

Blocks == BlocksA \cup BlocksB \cup BlocksC \cup BlocksH

\* What decode is handed for a block: its bytes, and what the back-end
\* returns for its payloads.
InputOf(blk) ==
    [src |-> EncodeBlock(blk.ulen, blk.n, blk.flag, blk.subs),
     oracle |-> BackEndOutputs(blk.subs)]

\* Family T: a block of one name with a duplicate sub-block and a payload
\* whose count takes two bytes, cut short at every length.
BlockT ==
    [n |-> 1, ulen |-> U32(2), flag |-> 0,
     subs |-> <<Stream(TRUE, "Type", <<Tag("Diff")>>),
                SubDup(DupBit + Tag("Dup"), 0, Tag("Type")),
                SubBlock(Tag("Diff"), Payload(130), Decoded(U32(0)))>>
              \o EndColumn]

\* Family W: one name whose walk finds a token in every column it reads, in
\* a block with one column more than a name has token slots.
NopColumns(k) == [j \in 1..k |-> Stream(TRUE, "Type", <<Tag("Nop")>>)]

BlockW ==
    [n |-> 1, ulen |-> U32(0), flag |-> 0,
     subs |-> <<Stream(TRUE, "Type", <<Tag("Diff")>>), Stream(FALSE, "Diff", U32(0))>>
              \o NopColumns(TokenSlots)]

Prefixes(x) == {[src |-> SubSeq(x.src, 1, k), oracle |-> x.oracle] : k \in 0..Len(x.src)}

Inputs ==
    {InputOf(blk) : blk \in Blocks \cup {BlockW}} \cup Prefixes(InputOf(BlockT))

\* ---------------------------------------------------- the state machine

VARIABLES
    src,        \* the bytes of the block handed to decode
    rpos,       \* how many of them the reader has consumed
    oracle,     \* what the back-end will return, call by call
    calls,      \* the calls made to the back-end so far
    build,      \* the build of the decoder
    pc,         \* where decode is: start, demux, names, walk, done
    result,     \* none, ok (Ok(dst)), err (Err(e)) or panic
    fault,      \* which error or panic
    ulen,       \* the declared uncompressed length
    n_names,    \* the name count
    use_arith,  \* the back-end flag
    b,          \* the column store, Vec<TokenReader>
    t,          \* the index of the current column while demultiplexing
    names,      \* names[n + 1] is the source's names[n]
    tokens,     \* tokens[n + 1] is the source's tokens[n], None left out
    dst,        \* the output buffer
    i,          \* the ordinal of the name being reconstructed
    dist,       \* the distance read from column 0 for that name
    m,          \* the reference ordinal of that name
    wt,         \* the column index t of the walk
    order,      \* the ordinals whose reconstruction was begun, in order
    ev          \* what the last step read and did

\* The CSI bin builder of noodles-csi, reference_sequence/bin/builder.rs.
VARIABLES
    builder,    \* the Builder: id, loffset, chunks
    added,      \* the chunks passed to add_chunk so far, in call order
    bin         \* <<>> until build, then the Bin it returned

decoder_vars ==
    <<src, rpos, oracle, calls, build, pc, result, fault, ulen, n_names,
      use_arith, b, t, names, tokens, dst, i, dist, m, wt, order, ev>>

builder_vars == <<builder, added, bin>>

vars == <<decoder_vars, builder_vars>>

\* The record of a step, for the properties below.
EvNone ==
    [op |-> "none", st |-> "ok", n |-> 0, m |-> BigIndex, t |-> 0, tag |-> "Invalid",
     prev |-> NoToken, tok |-> NoToken, delta |-> 0, dist |-> U32Zero,
     dist_ok |-> FALSE, dup_next |-> [ok |-> FALSE, val |-> U32Zero],
     ttype |-> 0, called |-> FALSE, ended |-> FALSE, before |-> <<>>, at |-> 0,
     name |-> <<>>]

InitOn(inputs) ==
    /\ build \in Builds
    /\ \E x \in inputs :
          /\ src = x.src
          /\ oracle = x.oracle
    /\ rpos = 0
    /\ calls = <<>>
    /\ pc = "start"
    /\ result = "none"
    /\ fault = ""
    /\ ulen = U32Zero
    /\ n_names = 0
    /\ use_arith = FALSE
    /\ b = <<>>
    /\ t = -1
    /\ names = <<>>
    /\ tokens = <<>>
    /\ dst = <<>>
    /\ i = 0
    /\ dist = U32Zero
    /\ m = BigIndex
    /\ wt = 0
    /\ order = <<>>
    /\ ev = EvNone

\* Positions of a bgzf file, ordered as VirtualPosition is; the largest one
\* is VirtualPosition::MAX.
MaxPosition == 3

VirtualPositions == 0..MaxPosition

VirtualPositionMax == MaxPosition

\* impl Default for Builder, lines 46-54.
BuilderDefault == [id |-> 0, loffset |-> VirtualPositionMax, chunks |-> <<>>]

InitBuilderOn(bld) ==
    /\ builder = bld
    /\ added = <<>>
    /\ bin = <<>>

Init == InitOn(Inputs) /\ InitBuilderOn(BuilderDefault)

\* The `?` of a failed step, or its panic: decode is over.
Stop(st, why) ==
    /\ pc' = "done"
    /\ result' = st
    /\ fault' = why

\* decode, lines 17-25: the block header is read.  The name counts of the
\* model's blocks are below 2^16, and usize holds every u32.
HeaderDone(h) ==
    /\ rpos' = h.pos
    /\ ulen' = h.ulen
    /\ n_names' = U32Small(h.n_names)
    /\ use_arith' = h.use_arith
    /\ IF h.st = "ok"
       THEN pc' = "demux" /\ UNCHANGED <<result, fault>>
       ELSE Stop(h.st, h.fault)
    /\ ev' = [EvNone EXCEPT !.op = "header", !.st = h.st]

ReadHeader ==
    /\ pc = "start"
    /\ HeaderDone(decode_header(src))
    /\ UNCHANGED <<src, oracle, calls, build, b, t, names, tokens, dst, i, dist, m, wt, order>>
    /\ UNCHANGED builder_vars

\* decode_token_byte_streams: one turn of its loop; at the end of the source
\* it returns and decode creates names, tokens and dst (lines 29-32).
DemuxDone(r) ==
    /\ b' = r.b
    /\ t' = r.t
    /\ rpos' = r.pos
    /\ oracle' = r.oracle
    /\ calls' = r.calls
    /\ ev' = [EvNone EXCEPT !.op = "demux", !.st = r.st, !.ttype = r.ttype,
                            !.tag = r.ty, !.called = (r.calls # calls),
                            !.before = b, !.at = rpos]
    /\ IF r.st = "ok"
       THEN UNCHANGED <<pc, result, fault, names, tokens>>
       ELSE IF r.st = "break"
       THEN /\ pc' = "names"
            /\ names' = [j \in 1..n_names |-> <<>>]
            /\ tokens' = [j \in 1..n_names |-> <<>>]
            /\ UNCHANGED <<result, fault>>
       ELSE Stop(r.st, r.fault) /\ UNCHANGED <<names, tokens>>

DemuxStep ==
    /\ pc = "demux"
    /\ DemuxDone(decode_token_byte_streams_step(src, rpos, b, t, oracle, calls,
                                                use_arith, n_names))
    /\ UNCHANGED <<src, build, ulen, n_names, use_arith, dst, i, dist, m, wt, order>>
    /\ UNCHANGED builder_vars

\* The next distance the Dup cursor of column 0 holds, if it holds one.
DupNext(bb) ==
    IF Len(bb) = 0 THEN [ok |-> FALSE, val |-> U32Zero]
    ELSE [ok |-> CursorReadU32(bb[1]["Dup"]).ok, val |-> CursorReadU32(bb[1]["Dup"]).val]

\* decode_single_name for name i, lines 257-268, and for a Dup name the
\* return and the write of the name to dst (lines 36-37).
BeginDone(r) ==
    /\ b' = r.b
    /\ names' = r.names
    /\ tokens' = r.tokens
    /\ order' = Append(order, i)
    /\ ev' = [EvNone EXCEPT !.op = "begin", !.st = r.st, !.n = i, !.m = r.m,
                            !.tag = r.ty, !.dist = r.dist, !.dist_ok = r.dist_ok,
                            !.dup_next = DupNext(b), !.before = b]
    /\ IF r.st # "ok"
       THEN Stop(r.st, r.fault) /\ UNCHANGED <<dst, i, dist, m, wt>>
       ELSE IF r.returned
       THEN /\ dst' = WriteName(dst, r.names[i + 1])
            /\ i' = i + 1
            /\ UNCHANGED <<pc, result, fault, dist, m, wt>>
       ELSE /\ pc' = "walk"
            /\ dist' = r.dist
            /\ m' = r.m
            /\ wt' = 1
            /\ UNCHANGED <<result, fault, dst, i>>

NameBegin ==
    /\ pc = "names"
    /\ i < n_names
    /\ BeginDone(decode_single_name_begin(b, names, tokens, i, build))
    /\ UNCHANGED <<src, rpos, oracle, calls, build, ulen, n_names, use_arith, t>>
    /\ UNCHANGED builder_vars

\* decode_single_name for name i, one turn of the loop of lines 270-291; at
\* its break, the return and the write of the name to dst (lines 36-37).
WalkDone(r) ==
    /\ b' = r.b
    /\ names' = r.names
    /\ tokens' = r.tokens
    /\ ev' = [EvNone EXCEPT !.op = "walk", !.st = r.st, !.n = i, !.m = m, !.t = wt,
                            !.tag = r.tag, !.prev = r.prev, !.tok = r.tok,
                            !.delta = r.delta, !.dist = dist, !.dist_ok = TRUE,
                            !.ended = r.ended, !.before = b, !.name = names[i + 1]]
    /\ IF r.st # "ok"
       THEN Stop(r.st, r.fault) /\ UNCHANGED <<dst, i, wt>>
       ELSE IF r.ended
       THEN /\ dst' = WriteName(dst, names[i + 1])
            /\ i' = i + 1
            /\ pc' = "names"
            /\ UNCHANGED <<result, fault, wt>>
       ELSE /\ wt' = wt + 1
            /\ UNCHANGED <<pc, result, fault, dst, i>>

NameWalk ==
    /\ pc = "walk"
    /\ WalkDone(decode_single_name_walk(b, names, tokens, i, m, wt, build))
    /\ UNCHANGED <<src, rpos, oracle, calls, build, ulen, n_names, use_arith, t, dist, m, order>>
    /\ UNCHANGED builder_vars

\* decode, line 40: every name is written; Ok(dst).
Return ==
    /\ pc = "names"
    /\ i = n_names
    /\ pc' = "done"
    /\ result' = "ok"
    /\ ev' = [EvNone EXCEPT !.op = "return"]
    /\ UNCHANGED <<src, rpos, oracle, calls, build, fault, ulen, n_names, use_arith,
                   b, t, names, tokens, dst, i, dist, m, wt, order>>
    /\ UNCHANGED builder_vars

Next == ReadHeader \/ DemuxStep \/ NameBegin \/ NameWalk \/ Return

Spec == Init /\ [][Next]_vars

\* ------------------------------------------------------- the bin builder

\* Chunk::new(start, end), with start() and end().
Chunk(start, end) == [start |-> start, end |-> end]

\* Builder::set_id, lines 15-18.
set_id(bld, id) == [bld EXCEPT !.id = id]

\* The test of line 21 with the start of every chunk passing it.
LowersLoffsetAlways(bld, chunk) == chunk.start <= VirtualPositionMax

\* The test of line 21.
LowersLoffset(bld, chunk) == chunk.start < bld.loffset

\* The test of line 27 with a strict comparison.
MergesStrict(chunk, last_chunk) == chunk.start < last_chunk.end

\* The test of line 27.
Merges(chunk, last_chunk) == chunk.start <= last_chunk.end

\* Lines 26-33, after loffset is settled.
AddOrMerge(bld, chunk) ==
    IF bld.chunks # <<>> /\ Merges(chunk, bld.chunks[Len(bld.chunks)])
    THEN [bld EXCEPT !.chunks[Len(bld.chunks)] = Chunk(@.start, chunk.end)]
    ELSE [bld EXCEPT !.chunks = Append(@, chunk)]

\* Builder::add_chunk, lines 20-34.
add_chunk(bld, chunk) ==
    AddOrMerge(IF LowersLoffset(bld, chunk) THEN [bld EXCEPT !.loffset = chunk.start]
               ELSE bld,
               chunk)

\* Builder::build, lines 36-43.
Bin(bld) == [id |-> bld.id, loffset |-> bld.loffset, chunks |-> bld.chunks]

\* How many ids and how many add_chunk calls a builder is taken through.
MaxId == 1

MaxChunks == 3

Ids == 0..MaxId

Chunks == {Chunk(s, e) : s \in VirtualPositions, e \in VirtualPositions}

\* The decoder at rest while a builder is used.
NoInput == [src |-> <<>>, oracle |-> <<>>]

InitBuilder ==
    /\ InitOn({NoInput})
    /\ build = [checks |-> FALSE, bits |-> 64]
    /\ InitBuilderOn(BuilderDefault)

SetId ==
    /\ bin = <<>>
    /\ \E id \in Ids : builder' = set_id(builder, id)
    /\ UNCHANGED <<added, bin, decoder_vars>>

AddChunk ==
    /\ bin = <<>>
    /\ Len(added) < MaxChunks
    /\ \E chunk \in Chunks :
          /\ builder' = add_chunk(builder, chunk)
          /\ added' = Append(added, chunk)
    /\ UNCHANGED <<bin, decoder_vars>>

\* build takes the builder by value: nothing is called on it afterwards.
Build ==
    /\ bin = <<>>
    /\ bin' = <<Bin(builder)>>
    /\ UNCHANGED <<builder, added, decoder_vars>>

NextBuilder == SetId \/ AddChunk \/ Build

SpecBuilder == InitBuilder /\ [][NextBuilder]_vars


\* ------------------------------------------------------------ properties

\* The names of nms in order, each followed by one NUL.
RECURSIVE NulTerminated(_)
NulTerminated(nms) ==
    IF nms = <<>> THEN <<>> ELSE Head(nms) \o <<NUL>> \o NulTerminated(Tail(nms))

RECURSIVE TotalLen(_)
TotalLen(nms) == IF nms = <<>> THEN 0 ELSE Len(Head(nms)) + TotalLen(Tail(nms))

\* C2: when decode returns Ok(dst), dst is exactly the names of ordinals
\* 0..n_names-1 in order, each followed by one NUL, and nothing else: its
\* length is the sum of the name lengths plus n_names, whatever length the
\* header declared.
C2_OutputIsNulTerminatedNames ==
    result = "ok" =>
        /\ Len(names) = n_names
        /\ dst = NulTerminated(names)
        /\ Len(dst) = TotalLen(names) + n_names

\* A decode of two different non-empty names whose declared length is not
\* the length of the output.
C2_Witness ==
    /\ result = "ok"
    /\ n_names = 2
    /\ names[1] # <<>>
    /\ names[2] # names[1]
    /\ U32Small(ulen) # Len(dst)

\* C3: when column 0 yields the tag Dup for name n and the duplicate-distance
\* stream holds the distance d next, 1 <= d <= n, the reconstruction of name
\* n succeeds and leaves names[n] = names[n-d] and tokens[n] = tokens[n-d].
C3_DupInvariant ==
    (/\ ev.op = "begin"
     /\ ev.tag = "Dup"
     /\ ev.dup_next.ok
     /\ U32IsSmall(ev.dup_next.val)
     /\ U32Small(ev.dup_next.val) >= 1
     /\ U32Small(ev.dup_next.val) <= ev.n)
    => /\ ev.st = "ok"
       /\ names[ev.n + 1] = names[ev.n - U32Small(ev.dup_next.val) + 1]
       /\ tokens[ev.n + 1] = tokens[ev.n - U32Small(ev.dup_next.val) + 1]

\* The reconstructions begun so far are those of the ordinals 0, 1, 2, ...
\* in this order, and a successful decode has begun all n_names of them.
InOrdinalOrder ==
    /\ \A j \in 1..Len(order) : order[j] = j - 1
    /\ result = "ok" => Len(order) = n_names

\* The last step was a turn of the walk that read the slot tokens[m][t].
WalkReadSlot ==
    /\ ev.op = "walk"
    /\ ~ev.m.big
    /\ ev.m.idx < Len(tokens)
    /\ ev.t < TokenSlots

C5_BadDistanceFails ==
    (/\ ev.op = "begin"
     /\ ev.dist_ok
     /\ \/ ev.dist = U32Zero
        \/ ~U32IsSmall(ev.dist)
        \/ U32Small(ev.dist) > ev.n)
    => result = "err"

\* The last step was a turn of the walk that read a Delta or Delta0 tag and
\* its increment byte, with the reference token of the kind the tag needs.
DeltaRead ==
    /\ ev.op = "walk"
    /\ \/ ev.tag = "Delta" /\ ev.prev.k = "Digits"
       \/ ev.tag = "Delta0" /\ ev.prev.k = "PaddedDigits"
    /\ fault # "UnexpectedEof"

\* C6: a Delta tag with increment i against Digits(v) records Digits(v + i)
\* at tokens[n][t], and a Delta0 tag with increment i against
\* PaddedDigits(v, w) records PaddedDigits(v + i, w).
C6_DeltaInvariant ==
    DeltaRead =>
        /\ ev.st = "ok"
        /\ ~U32AddU8(ev.prev.v, ev.delta).overflow
        /\ TokenAt(tokens, ev.n, ev.t)
              = [ev.prev EXCEPT !.v = U32AddU8(ev.prev.v, ev.delta).val]

\* The last step was a turn of the walk that read a Delta tag with a
\* reference token that is not Digits, or a Delta0 tag with a reference token
\* that is not PaddedDigits.
DeltaWithoutReference ==
    /\ ev.op = "walk"
    /\ \/ ev.tag = "Delta" /\ ev.prev.k # "Digits"
       \/ ev.tag = "Delta0" /\ ev.prev.k # "PaddedDigits"

\* C7: a Delta tag whose reference token is not Digits, and a Delta0 tag
\* whose reference token is not PaddedDigits, ends decode with an error: no
\* token is recorded at that column and no output is returned.
C7_DeltaNeedsReference ==
    DeltaWithoutReference =>
        /\ pc = "done"
        /\ result = "err"
        /\ ev.tok = NoToken
        /\ ev.t \notin DOMAIN tokens[ev.n + 1]

\* A Delta tag read against a PaddedDigits token of the reference name.
C7_Witness ==
    /\ DeltaWithoutReference
    /\ ev.tag = "Delta"
    /\ ev.prev.k = "PaddedDigits"
    /\ ev.n = 1
    /\ ev.m.idx = 0

\* C8: when the tag read from column 0 for a name is a valid tag other than
\* Dup and Diff, decode fails with an error result.
C8_Column0TagFails ==
    (ev.op = "begin" /\ ev.tag \notin {"Dup", "Diff", "Invalid"}) => result = "err"

\* C9: the header is read as the declared length (bytes 0..3), the name
\* count (bytes 4..7) and the flag (byte 8), nine bytes in all, and every
\* sub-block is handed to the arithmetic coder when the flag byte is 1 and to
\* the range coder for every other flag byte.
C9_HeaderAndBackEnd ==
    (pc # "start" /\ Len(src) >= 9) =>
        /\ ulen = SubSeq(src, 1, 4)
        /\ U32(n_names) = SubSeq(src, 5, 8)
        /\ use_arith = (src[9] = 1)
        /\ ev.op = "header" => rpos = 9
        /\ \A j \in 1..Len(calls) : calls[j].arith = (src[9] = 1)

\* A block with the flag byte 2 decoded, by the range coder, to two names.
C9_Witness ==
    /\ result = "ok"
    /\ src[9] = 2
    /\ ulen = <<4, 3, 2, 1>>
    /\ n_names = 2
    /\ Len(calls) >= 2
    /\ \A j \in 1..Len(calls) : ~calls[j].arith

\* C10: a sub-block header byte whose low six bits are a kind value k is
\* accepted with kind k whatever its bits 0x80 and 0x40; a column is opened
\* exactly when bit 0x80 is set, and the back-end is called only when bit
\* 0x40 is clear (and is called by every such sub-block that is stored).
C10_KindAndFlags ==
    (ev.op = "demux" /\ ev.st # "break" /\ ev.ttype % 64 < Len(TypeNames)) =>
        /\ ev.tag = TypeNames[(ev.ttype % 64) + 1]
        /\ fault # "InvalidData kind"
        /\ Len(b) = Len(ev.before) + (IF ev.ttype >= 128 THEN 1 ELSE 0)
        /\ ev.called => (ev.ttype \div 64) % 2 = 0
        /\ (ev.st = "ok" /\ (ev.ttype \div 64) % 2 = 0) => ev.called

\* The header byte 0xC6 (Diff, new column, duplicate) stored in column 1.
C10_Witness ==
    /\ ev.op = "demux"
    /\ ev.st = "ok"
    /\ ev.ttype = 198
    /\ ev.tag = "Diff"
    /\ ~ev.called
    /\ Len(b) = 2

\* The last step was a turn of the demultiplexer that read a sub-block
\* header with the bit mask set.
HeaderBit(mask) == ev.op = "demux" /\ ev.st # "break" /\ (ev.ttype \div mask) % 2 = 1

\* C11: after a sub-block with tok_new set and a kind other than Type is
\* processed, the type-tag stream of the new column holds n_names bytes: the
\* kind's tag byte, then the Match marker n_names - 1 times.
C11_PrefilledTypeStream ==
    (HeaderBit(NewBit) /\ ev.st = "ok" /\ ev.tag # "Type") =>
        /\ Len(b) = Len(ev.before) + 1
        /\ Len(b[Len(b)]["Type"].buf) = n_names
        /\ b[Len(b)]["Type"].buf =
              [j \in 1..n_names |-> IF j = 1 THEN TypeToU8(ev.tag) ELSE TypeToU8("Match")]

\* The last step was a turn of the demultiplexer on a duplicate sub-block
\* whose kind has a stream, with its two bytes present in the source and at
\* least one name declared.
DupSubBlock ==
    /\ HeaderBit(DupBit)
    /\ ev.tag \in StreamKinds
    /\ n_names >= 1
    /\ Len(src) >= ev.at + 3

\* The source column index and the source kind of that sub-block.
DupPosByte == src[ev.at + 2]

DupKindByte == src[ev.at + 3]

\* C12: a duplicate sub-block whose source column exists and whose source
\* kind is any of the ten stream kinds reads two bytes after its header,
\* calls no back-end, and leaves the current column's stream of its kind
\* equal to the source column's stream of the source kind.
C12_DupCopiesStream ==
    (/\ DupSubBlock
     /\ DupPosByte < Len(b)
     /\ DupKindByte < Len(TypeNames)
     /\ TypeNames[DupKindByte + 1] \in StreamKinds)
    => /\ ev.st = "ok"
       /\ rpos = ev.at + 3
       /\ ~ev.called
       /\ b[Len(b)][ev.tag].buf = b[DupPosByte + 1][TypeNames[DupKindByte + 1]].buf

\* C13: a duplicate sub-block whose source column index is not the index of
\* a column of the column store makes decode fail with an error result.
C13_DupSourceOutOfRange ==
    (/\ DupSubBlock
     /\ DupKindByte < Len(TypeNames)
     /\ DupPosByte >= Len(b))
    => result = "err"

\* The count that follows the sub-block header read by the last step.
CountRead == read_uint7(src, ev.at + 1, 0)

\* The last step was a turn of the demultiplexer on a sub-block that the end
\* of the source cuts short after its header byte: inside the two bytes of a
\* duplicate, inside the count, or inside the payload the count declares.
SubBlockCut ==
    /\ ev.op = "demux"
    /\ ev.at < Len(src)
    /\ IF (ev.ttype \div DupBit) % 2 = 1 THEN Len(src) < ev.at + 3
       ELSE ~CountRead.ok \/ CountRead.pos + CountRead.val > Len(src)

\* The pre-fill of a new column panics before the sub-block is read.
PrefillPanics ==
    /\ HeaderBit(NewBit)
    /\ ev.tag \notin {"Type", "Invalid"}
    /\ (n_names = 0 \/ ev.tag \notin StreamKinds)

C15_BackEndCalls ==
    /\ \A j \in 1..Len(calls) :
          /\ calls[j].arith = use_arith
          /\ calls[j].arith = (src[9] = 1)
          /\ calls[j].order = 0
    /\ (ev.op = "demux" /\ ev.st = "ok" /\ (ev.ttype \div DupBit) % 2 = 0) => ev.called
    /\ (ev.op = "demux" /\ ev.called) =>
          /\ CountRead.ok
          /\ Len(calls[Len(calls)].data) = CountRead.val
          /\ calls[Len(calls)].data
                = SubSeq(src, CountRead.pos + 1, CountRead.pos + CountRead.val)
          /\ rpos = CountRead.pos + CountRead.val

\* The arithmetic coder called a second time in a block, for a payload of
\* two bytes.
C15_Witness ==
    /\ ev.op = "demux"
    /\ ev.called
    /\ use_arith
    /\ Len(calls) >= 2
    /\ CountRead.val = 2
    /\ calls[Len(calls)].data # calls[1].data

\* C16: the token walk of a name consults only populated columns, at most
\* as many as there are, and a walk that reaches a column index beyond the
\* populated columns ends the decode in a decode failure.
C16_WalkBeyondColumnsFails ==
    /\ (ev.op = "walk" /\ ev.st = "ok") => (ev.t >= 1 /\ ev.t < Len(b))
    /\ (ev.op = "walk" /\ ev.t >= Len(b)) => (pc = "done" /\ result = "err")

\* C17: decode ends in one of two ways only, whatever the input: it returns
\* an error, or it returns the full output holding every one of the
\* n_names names; it never ends otherwise and never returns an output
\* buffer with only some of the names.
C17_FullOutputOrError ==
    pc = "done" =>
        \/ result = "err"
        \/ result = "ok" /\ i = n_names /\ dst = NulTerminated(names)

\* A step changes the bytes of the stream of kind k of column c.
BytesChange(c, k) == c > Len(b') \/ b'[c][k].buf # b[c][k].buf

\* C18 as stated: a stream that holds bytes keeps them in every later step
\* of the decode, and the source is consumed to its end before the first
\* name is reconstructed.
C18_StreamsImmutable ==
    [][/\ \A c \in 1..Len(b) : \A k \in StreamKinds :
              b[c][k].buf # <<>> => ~BytesChange(c, k)
       /\ pc \in {"names", "walk"} => (rpos = Len(src) /\ pc' # "demux")]_vars

\* C18, amended: the bytes of a stream change only when a sub-block of the
\* stream's kind is stored into the last column during demultiplexing (a
\* second sub-block of that kind replaces them); the streams of every
\* earlier column and of every other kind keep their bytes, no step of name
\* reconstruction changes any stream's bytes and read positions only
\* advance, and all sub-blocks are processed before the first name is
\* reconstructed.
C18_StreamsChangeOnlyByStore ==
    [][/\ \A c \in 1..Len(b) : \A k \in StreamKinds :
              /\ BytesChange(c, k) =>
                    (pc = "demux" /\ c = Len(b') /\ k = ev'.tag /\ ev'.st = "ok")
              /\ ~BytesChange(c, k) => b'[c][k].pos >= b[c][k].pos
       /\ pc \in {"names", "walk"} => (rpos = Len(src) /\ pc' # "demux")]_vars

\* A second sub-block of one kind has replaced the bytes a first one stored
\* in the same column.
C18_Witness ==
    /\ ev.op = "demux"
    /\ ev.st = "ok"
    /\ Len(b) = Len(ev.before)
    /\ ev.tag \in StreamKinds
    /\ ev.before[Len(b)][ev.tag].buf # <<>>
    /\ b[Len(b)][ev.tag].buf # ev.before[Len(b)][ev.tag].buf

\* The chunk the add_chunk call of a step was given, and the last chunk the
\* builder stored before the step.
ChunkAdded == added'[Len(added')]

LastStored == builder.chunks[Len(builder.chunks)]

\* C19: add_chunk replaces the last stored chunk by (last.start, new.end),
\* the number of chunks unchanged, when the chunk list is non-empty and the
\* new chunk's start is <= the last stored chunk's end; otherwise it appends
\* the new chunk as the last element; either way every chunk before the
\* last one is left as it was.
C19_AddChunkMergesOrAppends ==
    [][added' # added =>
          /\ IF builder.chunks # <<>> /\ ChunkAdded.start <= LastStored.end
             THEN /\ Len(builder'.chunks) = Len(builder.chunks)
                  /\ builder'.chunks[Len(builder'.chunks)]
                        = Chunk(LastStored.start, ChunkAdded.end)
             ELSE /\ Len(builder'.chunks) = Len(builder.chunks) + 1
                  /\ builder'.chunks[Len(builder'.chunks)] = ChunkAdded
          /\ \A j \in 1..(Len(builder'.chunks) - 1) :
                builder'.chunks[j] = builder.chunks[j]]_vars

\* A chunk appended to an empty list, a second one merged into it with a
\* different end, and a third one appended behind the merged chunk.
C19_Witness ==
    /\ Len(added) = 3
    /\ added[2].start <= added[1].end
    /\ added[2].end # added[1].end
    /\ added[3].start > added[2].end
    /\ builder.chunks = <<Chunk(added[1].start, added[2].end), added[3]>>

RECURSIVE MinStart(_)
MinStart(cs) ==
    IF cs = <<>> THEN VirtualPositionMax
    ELSE IF Head(cs).start < MinStart(Tail(cs)) THEN Head(cs).start
    ELSE MinStart(Tail(cs))

\* C20: on a builder that started as the default one, loffset is the least
\* start of the chunks passed to add_chunk so far, VirtualPosition::MAX when
\* there was none, and the Bin that build returns carries the builder's id,
\* that loffset and the builder's chunk list.
C20_LoffsetIsMinStart ==
    /\ builder.loffset = MinStart(added)
    /\ bin # <<>> =>
          /\ Len(bin) = 1
          /\ bin[1].id = builder.id
          /\ bin[1].loffset = MinStart(added)
          /\ bin[1].chunks = builder.chunks

\* A bin built with a set id after a chunk with a larger start followed the
\* one with the least start and was not merged.
C20_Witness ==
    /\ bin # <<>>
    /\ bin[1].id = 1
    /\ Len(added) = 2
    /\ added[2].start > added[1].start
    /\ bin[1].loffset = added[1].start
    /\ bin[1].loffset < VirtualPositionMax
    /\ Len(bin[1].chunks) = 2

\* The stream of kind k of column c (counted from 1) is where it was before
\* the step, and has advanced by d bytes.
StreamKept(c, k) == b[c][k] = ev.before[c][k]

StreamAdvanced(c, k, d) ==
    b[c][k] = [ev.before[c][k] EXCEPT !.pos = @ + d]

\* C21: a name whose column-0 tag is Dup is reconstructed from column 0
\* alone: the step leaves every stream of the columns 1..N-1 where it was,
\* and in column 0 it advances the type-tag stream by the tag and the
\* duplicate-distance stream by the distance and no other stream.
C21_DupConsultsColumn0Only ==
    (ev.op = "begin" /\ ev.tag = "Dup" /\ ev.dup_next.ok) =>
        /\ ev.st = "ok"
        /\ Len(b) = Len(ev.before)
        /\ \A c \in 2..Len(b) : \A k \in StreamKinds : StreamKept(c, k)
        /\ \A k \in StreamKinds \ {"Type", "Dup"} : StreamKept(1, k)
        /\ StreamAdvanced(1, "Type", 1)
        /\ StreamAdvanced(1, "Dup", 4)

\* C22: a Diff walk for name n with reference name m starts at column 1
\* and moves on by exactly one column per token read, whatever the tag; the
\* token read at column t is resolved against tokens[m][t] and recorded at
\* tokens[n][t]; so tokens[n] holds a token at exactly the indices 1..k for
\* the k tokens read so far, and none elsewhere, during the walk and after
\* it ended.
C22_WalkIndices ==
    /\ (ev.op = "begin" /\ pc = "walk") => (wt = 1 /\ DOMAIN tokens[i + 1] = {})
    /\ pc = "walk" => DOMAIN tokens[i + 1] = 1..(wt - 1)
    /\ (ev.op = "walk" /\ ev.st = "ok") =>
          /\ ev.m = m
          /\ ev.prev = IF ev.m.idx = ev.n THEN NoToken
                       ELSE TokenAt(tokens, ev.m.idx, ev.t)
    /\ (ev.op = "walk" /\ ev.st = "ok" /\ ~ev.ended) =>
          /\ wt = ev.t + 1
          /\ ev.tok # NoToken
          /\ tokens[ev.n + 1][ev.t] = ev.tok
    /\ (ev.op = "walk" /\ ev.ended) => DOMAIN tokens[ev.n + 1] = 1..(ev.t - 1)

\* The walk of name 1 against name 0 ended at column 3 after two tokens.
C22_Witness ==
    /\ ev.op = "walk"
    /\ ev.ended
    /\ ev.n = 1
    /\ ev.m.idx = 0
    /\ ev.t = 3
    /\ DOMAIN tokens[2] = {1, 2}
    /\ tokens[2][1].k = "Nop"

\* A walk step that read the tag Match.
MatchRead == ev.op = "walk" /\ ev.tag = "Match"

\* C23: when the walk reads Match at column t and tokens[m][t] is present,
\* it records tokens[n][t] equal to tokens[m][t], appends the rendering of
\* that token to the name, and in column t advances the type-tag stream by
\* one byte and no other stream.
C23_MatchReusesReference ==
    (MatchRead /\ ev.prev # NoToken) =>
        /\ ev.st = "ok"
        /\ ~ev.ended
        /\ ev.m.idx # ev.n
        /\ tokens[ev.n + 1][ev.t] = tokens[ev.m.idx + 1][ev.t]
        /\ names[ev.n + 1] = ev.name \o Rendering(tokens[ev.m.idx + 1][ev.t])
        /\ StreamAdvanced(ev.t + 1, "Type", 1)
        /\ \A k \in StreamKinds \ {"Type"} : StreamKept(ev.t + 1, k)

\* Name 1 matched the zero-padded number of name 0 at column 1 and its
\* digits were appended.
C23_Witness ==
    /\ MatchRead
    /\ ev.n = 1
    /\ ev.t = 1
    /\ ev.prev.k = "PaddedDigits"
    /\ tokens[2][1] = tokens[1][1]
    /\ Len(names[2]) = Len(ev.name) + 5

\* C24: when the walk reads Match at column t and tokens[m][t] is absent,
\* the walk of name n ends at that column as it does on End: no token is
\* recorded at t, nothing is appended to the name, no error is raised, and
\* the name is written out as it stands.
C24_MatchWithoutReferenceEnds ==
    (MatchRead /\ ev.prev = NoToken) =>
        /\ ev.st = "ok"
        /\ ev.ended
        /\ result = "none"
        /\ pc = "names"
        /\ i = ev.n + 1
        /\ ev.t \notin DOMAIN tokens[ev.n + 1]
        /\ names[ev.n + 1] = ev.name
        /\ StreamAdvanced(ev.t + 1, "Type", 1)
        /\ \A k \in StreamKinds \ {"Type"} : StreamKept(ev.t + 1, k)

\* Name 1 read Match at column 1 where name 0, its reference, had ended
\* without a token, and name 1 ended there as an empty name too.
C24_Witness ==
    /\ MatchRead
    /\ ev.prev = NoToken
    /\ ev.n = 1
    /\ ev.m.idx = 0
    /\ ev.t = 1
    /\ DOMAIN tokens[1] = {}
    /\ DOMAIN tokens[2] = {}
    /\ i = 2
    /\ dst = <<NUL, NUL>>

\* What was left of the string stream of the column a walk step read from.
StringLeft ==
    SubSeq(ev.before[ev.t + 1]["String"].buf, ev.before[ev.t + 1]["String"].pos + 1,
           Len(ev.before[ev.t + 1]["String"].buf))

\* C25: a String token is read only from a complete NUL-terminated value:
\* when the tag String is read and what is left of the column's string
\* stream is empty or holds no NUL, decode fails with an error; otherwise
\* the token is the bytes up to the first NUL, none dropped.
C25_StringNeedsNul ==
    (ev.op = "walk" /\ ev.tag = "String" /\ ev.t < Len(ev.before)) =>
        IF \A j \in 1..Len(StringLeft) : StringLeft[j] # NUL
        THEN pc = "done" /\ result = "err"
        ELSE ev.st = "ok" =>
                /\ ev.tok.k = "String"
                /\ Len(StringLeft) > Len(ev.tok.s)
                /\ StringLeft[Len(ev.tok.s) + 1] = NUL
                /\ ev.tok.s = SubSeq(StringLeft, 1, Len(ev.tok.s))

\* The byte a walk step read from the char stream of its column.
CharByteRead ==
    ev.before[ev.t + 1]["Char"].buf[ev.before[ev.t + 1]["Char"].pos + 1]

\* C26: every Char token contributes exactly one byte to the name, and so
\* to the output: the byte read from the column's char stream, whatever its
\* value in 0..255.
C26_CharIsOneByte ==
    (ev.op = "walk" /\ ev.tag = "Char" /\ ev.st = "ok") =>
        /\ ev.tok = TokenChar(CharByteRead)
        /\ names[ev.n + 1] = ev.name \o <<CharByteRead>>

\* C27: the sum v + increment of a Delta or Delta0 token stays within the
\* unsigned 32-bit range wherever decoding goes on: a step whose sum
\* exceeds 2^32 - 1 does not yield a token (with the sum reduced modulo
\* 2^32) from which decode could go on to succeed.
C27_SumWithinU32 ==
    (DeltaRead /\ U32AddU8(ev.prev.v, ev.delta).overflow) =>
        /\ ev.st # "ok"
        /\ pc = "done"
        /\ result # "ok"

\* C28: a name has 128 token slots: no slot at index 128 or beyond is ever
\* written, and a walk that has read tokens at the columns 1..127 and goes
\* on to column 128 ends decode with an error.
C28_TokenSlots ==
    /\ \A n \in 1..Len(tokens) : DOMAIN tokens[n] \subseteq 1..(TokenSlots - 1)
    /\ (ev.op = "walk" /\ ev.t >= TokenSlots) =>
          /\ pc = "done"
          /\ result = "err"
          /\ tokens[ev.n + 1] = [j \in 1..(TokenSlots - 1) |-> tokens[ev.n + 1][j]]

\* C29: every sub-block is stored into an allocated column: a sub-block
\* header without tok_new that comes when no column exists ends decode with
\* an error and leaves the column store empty, and a sub-block that is
\* stored is stored into the most recently allocated column, every other
\* column left as it was.
C29_StoredIntoAllocatedColumn ==
    /\ (ev.op = "demux" /\ ev.st # "break" /\ ev.before = <<>> /\ ~HeaderBit(NewBit)) =>
          /\ pc = "done"
          /\ result = "err"
          /\ b = <<>>
    /\ (ev.op = "demux" /\ ev.st = "ok") =>
          /\ t = Len(b) - 1
          /\ t >= 0
          /\ \A c \in 1..Len(ev.before) : c # t + 1 => b[c] = ev.before[c]

\* Every chunk passed to add_chunk up to and with the step has start <= end.
WellFormedChunks == \A j \in 1..Len(added') : added'[j].start <= added'[j].end

LastStoredAfter == builder'.chunks[Len(builder'.chunks)]

\* C30: with chunks whose start <= end, a merge never shrinks the last
\* stored chunk: when add_chunk is given a chunk whose start is <= the end
\* of the last stored chunk, the end of the last stored chunk after the
\* call is >= its end before, and the chunk given lies between the start
\* and the end of the last stored chunk.
C30_MergeNeverShrinks ==
    [][(/\ added' # added
        /\ WellFormedChunks
        /\ builder.chunks # <<>>
        /\ ChunkAdded.start <= LastStored.end)
       => /\ LastStoredAfter.end >= LastStored.end
          /\ LastStoredAfter.start <= ChunkAdded.start
          /\ LastStoredAfter.end >= ChunkAdded.end]_vars

=============================================================================
